---- MODULE Spec2Model ----
(***************************************************************************)
(* Multi-device playback synchronisation: the device registry, the         *)
(* per-user WebSocket rooms of SyncService, the arbitration function       *)
(* handle_playback_update and the HTTP / WebSocket handlers of main.py.    *)
(*                                                                         *)
(* Every coroutine is cut at its awaits: one action runs a handler from    *)
(* one await to the next (send_json, accept, receive_json).                *)
(***************************************************************************)
EXTENDS Integers, Sequences, FiniteSets, TLC

VARIABLES
    now,            \* server clock (timestamps of the store)
    devices,        \* users/{user}/devices : user -> (device_id -> Device)
    activeDevice,   \* users/{user}/activeDevice : user -> device_id or None
    playback,       \* users/{user}/playback/current : user -> PlaybackState
    rooms,          \* SyncService.rooms : dict user_id -> list of websockets
    wsPc,           \* position of each websocket_endpoint coroutine
    wsUser,         \* the {user_id} path parameter of each websocket
    tasks           \* coroutines suspended in a send_json, and finished calls

vars == <<now, devices, activeDevice, playback, rooms, wsPc, wsUser, tasks>>

----------------------------------------------------------------------------
(* Bounds of the model *)

Users == {"u1", "u2"}
Devices == {"d1", "d2"}
Sockets == {"s1", "s2"}
Callers == {"h1", "h2"}
OneCaller == {"h1"}
Names == {"n1", "n2"}
OneUser == {"u1"}
MaxTime == 2
HeartbeatTimeout == 1

None == "none"
TaskIds == Sockets \cup Callers

\* Playback payloads a client proposes: a full state and a partial one.
FullState == [track_id |-> "t1", position_sec |-> 10, is_playing |-> TRUE]
States == { FullState, [position_sec |-> 20] }

\* JSON a client may send on its socket: playback updates that claim a
\* device, and a message that is no playback mutation.
ClientMsgs ==
    { [type |-> "update", device |-> d, state |-> FullState] : d \in Devices }
    \cup { [type |-> "ping"] }

----------------------------------------------------------------------------
(* Python list and dict helpers *)

Range(s) == { s[k] : k \in 1..Len(s) }

\* list.remove(x): drops the first occurrence of x.
ListRemove(s, x) ==
    LET p == CHOOSE k \in 1..Len(s) :
                 s[k] = x /\ \A j \in 1..(k - 1) : s[j] # x
    IN  [k \in 1..(Len(s) - 1) |-> IF k < p THEN s[k] ELSE s[k + 1]]

DictSet(d, k, v) == [x \in DOMAIN d \cup {k} |-> IF x = k THEN v ELSE d[x]]

DictDel(d, k) == [x \in DOMAIN d \ {k} |-> d[x]]

----------------------------------------------------------------------------
(* DeviceRegistry (services.device_manager) over the persistent store *)

\* Mutant: registering again creates the record anew.
dm_register_device_anew(devs, u, d, name, t) ==
    [devs EXCEPT ![u] = DictSet(@, d, [name |-> name, registered_at |-> t,
                                       last_heartbeat_at |-> t])]

\* device_manager.register_device: idempotent upsert. A known device gets
\* its metadata refreshed and keeps registered_at; a new one is created
\* with registered_at = now. The active pointer is not touched.
dm_register_device(devs, u, d, name, t) ==
    LET old == devs[u]
        rec == IF d \in DOMAIN old
               THEN [old[d] EXCEPT !.name = name]
               ELSE [name |-> name, registered_at |-> t,
                     last_heartbeat_at |-> t]
    IN  [devs EXCEPT ![u] = DictSet(old, d, rec)]

\* device_manager.set_active_device returns true only for a registered device.
dm_set_active_ok(devs, u, d) == d \in DOMAIN devs[u]

\* Mutant: the pointer is set without looking the device up.
dm_set_active_device_unchecked(act, devs, u, d) == [act EXCEPT ![u] = d]

\* device_manager.set_active_device: overwrites the pointer on success.
dm_set_active_device(act, devs, u, d) ==
    IF dm_set_active_ok(devs, u, d) THEN [act EXCEPT ![u] = d] ELSE act

\* device_manager.get_active_device: the pointer, None if never set.
get_active_device(u) == activeDevice[u]

\* device_manager.validate_device_control: true iff d is the active device.
validate_device_control(u, d) == d = activeDevice[u]

\* device_manager.update_device_heartbeat returns true for a known device.
dm_heartbeat_ok(devs, u, d) == d \in DOMAIN devs[u]

\* device_manager.update_device_heartbeat: last_heartbeat_at = now.
update_device_heartbeat(devs, u, d, t) ==
    IF dm_heartbeat_ok(devs, u, d)
    THEN [devs EXCEPT ![u] = [@ EXCEPT ![d].last_heartbeat_at = t]]
    ELSE devs

\* Mutant: a device whose age equals the timeout still counts as live.
isLive_inclusive(u, d) ==
    /\ d \in DOMAIN devices[u]
    /\ now - devices[u][d].last_heartbeat_at <= HeartbeatTimeout

\* isLive: the device's last heartbeat is younger than the timeout. It
\* annotates listings; no control decision reads it.
isLive(u, d) ==
    /\ d \in DOMAIN devices[u]
    /\ now - devices[u][d].last_heartbeat_at < HeartbeatTimeout

DeviceOrder == <<"d1", "d2">>

\* device_manager.get_user_devices: the user's devices as a sequence.
get_user_devices(u) ==
    LET known(d) == d \in DOMAIN devices[u]
        ids == SelectSeq(DeviceOrder, known)
    IN  [k \in 1..Len(ids) |->
            [device_id |-> ids[k], name |-> devices[u][ids[k]].name,
             registered_at |-> devices[u][ids[k]].registered_at,
             last_heartbeat_at |-> devices[u][ids[k]].last_heartbeat_at]]

----------------------------------------------------------------------------
(* PersistentStore: playback state (services/firebase_db.py) *)

NoState == [empty |-> TRUE]

\* The sentinel {'.sv': 'timestamp'} the server replaces by its clock.
ServerTimestamp == [sv |-> "timestamp"]

\* state['updatedAt'] = v on a Python dict.
WithUpdatedAt(state, v) ==
    [f \in DOMAIN state \cup {"updatedAt"} |->
        IF f = "updatedAt" THEN v ELSE state[f]]

\* FirebaseDB.set_playback_state: ref.set replaces the whole value at
\* users/{user}/playback/current; the server resolves the sentinel.
set_playback_state(pb, u, state, t) ==
    IF u = "" THEN pb
    ELSE [pb EXCEPT ![u] = WithUpdatedAt(state, [ts |-> t])]

----------------------------------------------------------------------------
(* SyncService (services/sync.py) *)

NoTask == [kind |-> "none"]

\* The message slot of a request that has nothing to send.
NoMsg == [type |-> "none"]

\* The connections in a user's room, as a set.
RoomSet(rms, u) == IF u \in DOMAIN rms THEN Range(rms[u]) ELSE {}

\* Mutant: the entry of an emptied room is kept.
disconnect_leaves_empty_list(rms, c, u) ==
    IF u \notin DOMAIN rms THEN rms
    ELSE IF c \in Range(rms[u]) THEN DictSet(rms, u, ListRemove(rms[u], c))
         ELSE rms

\* Mutant: the socket is not taken off the list.
disconnect_keeps_socket(rms, c, u) == rms

\* SyncService.disconnect: drop the socket from the user's list; delete the
\* user's entry once the list is empty.
disconnect(rms, c, u) ==
    IF u \notin DOMAIN rms THEN rms
    ELSE LET l == IF c \in Range(rms[u]) THEN ListRemove(rms[u], c)
                  ELSE rms[u]
         IN  IF l = <<>> THEN DictDel(rms, u) ELSE DictSet(rms, u, l)

\* Mutant: the socket is appended although it is in the list already.
connect_appends_twice(rms, c, u) ==
    LET l == IF u \in DOMAIN rms THEN rms[u] ELSE <<>>
    IN  DictSet(rms, u, Append(Append(l, c), c))

\* SyncService.connect after accept(): create the list if absent, append.
connect(rms, c, u) ==
    LET l == IF u \in DOMAIN rms THEN rms[u] ELSE <<>>
    IN  DictSet(rms, u, Append(l, c))

\* A coroutine that entered broadcast_to_user / handle_playback_update.
\*   i        : index the for-loop's list iterator reads next
\*   detached : the list object it iterates is no longer rooms[user]
\*              (the entry was deleted: that list stays empty for ever)
\*   cur      : the connection whose send_json is awaited
\*   log      : connections send_json was called on, in call order
\*   writes   : store writes the call made
\*   live     : the user's connections that were in the room when the
\*              call started and have not left it since
\*   failed   : connections whose send_json raised into the except branch
NewTask(kind, u, d, message, sender, writes, rms) ==
    [kind |-> kind, phase |-> "run", user |-> u, device |-> d,
     msg |-> message, sender |-> sender, i |-> 1,
     detached |-> (u \notin DOMAIN rms), cur |-> None, log |-> <<>>,
     writes |-> writes, live |-> RoomSet(rms, u), result |-> None,
     failed |-> {}]

\* Mutant: the loop goes over the connections of every room.
IterList_every_room(t, rms) ==
    IF t.detached THEN <<>>
    ELSE rms[t.user] \o
         (IF \E v \in DOMAIN rms : v # t.user
          THEN rms[CHOOSE v \in DOMAIN rms : v # t.user]
          ELSE <<>>)

\* The list object the task's for-loop iterates.
IterList(t, rms) == IF t.detached THEN <<>> ELSE rms[t.user]

\* The call returns: True for an accepted update, False for a rejected one,
\* the HTTP status for set-active.
Return(t, rms) ==
    [t EXCEPT !.phase = "done", !.cur = None,
              !.result = CASE t.kind = "update" -> "True"
                           [] t.kind = "reject" -> "False"
                           [] t.kind = "switch" -> "200"
                           [] t.kind = "notfound" -> "404"
                           [] OTHER -> None]

\* First index from i on whose connection is not the sender; 0 if none.
NextTarget(l, i, sender) ==
    LET ok == { j \in i..Len(l) : ~(sender # None /\ l[j] = sender) }
    IN  IF ok = {} THEN 0
        ELSE CHOOSE j \in ok : \A k \in ok : j <= k

\* SyncService.broadcast_to_user, from the iterator's position to the next
\* await of send_json, or to the end of the loop.
broadcast_to_user(t, rms) ==
    LET l == IterList(t, rms)
        j == NextTarget(l, t.i, t.sender)
    IN  IF j = 0 THEN Return(t, rms)
        ELSE [t EXCEPT !.phase = "send", !.cur = l[j], !.i = j + 1,
                       !.log = Append(@, l[j])]

\* The awaited send_json came back: a rejection reply returns, a broadcast
\* goes on with its loop.
AfterSend(t, rms) ==
    IF t.kind = "reject" THEN Return(t, rms) ELSE broadcast_to_user(t, rms)

\* Mutant: no except branch, the exception of send_json leaves the call,
\* which ends there.
send_failure_propagates(t, rms) ==
    [t EXCEPT !.failed = @ \cup {t.cur}, !.phase = "done", !.cur = None,
              !.result = "raised"]

\* The awaited send_json raised: the except branch prints the error and the
\* code goes on as after a delivery (sync.py:35-36 and 55-56).
AfterSendFailure(t, rms) ==
    AfterSend([t EXCEPT !.failed = @ \cup {t.cur}], rms)

\* What disconnect means to the calls in flight for user u: a deleted
\* entry leaves their loops iterating the old, empty list object.
Detach(ts, rms, u) ==
    [id \in TaskIds |->
        IF ts[id].kind # "none" /\ ts[id].phase # "done" /\ ts[id].user = u
        THEN [ts[id] EXCEPT !.detached = @ \/ u \notin DOMAIN rms,
                            !.live = @ \cap RoomSet(rms, u)]
        ELSE ts[id]]

\* handle_playback_update, lines 47-57: the rejection reply to the sender.
RejectUpdate(u, d, sender) ==
    LET t == NewTask("reject", u, d,
                 [type |-> "playback_controlled_elsewhere",
                  active_device_id |-> get_active_device(u)],
                 sender, 0, rooms)
    IN  [pb |-> playback,
         task |-> IF sender # None
                  THEN [t EXCEPT !.phase = "send", !.cur = sender,
                                 !.log = <<sender>>]
                  ELSE Return(t, rooms)]

\* handle_playback_update, lines 59-68: the store write and the broadcast
\* to the other connections.
AcceptUpdate(u, d, state, sender) ==
    [pb |-> set_playback_state(playback, u, state, now),
     task |-> broadcast_to_user(
                  NewTask("update", u, d,
                      [type |-> "playback_state_update",
                       state |-> WithUpdatedAt(state, ServerTimestamp)],
                      sender, 1, rooms),
                  rooms)]

\* Mutant: the store error is caught, the update is broadcast all the same
\* and the call returns True.
store_failure_swallowed(u, d, state, sender) ==
    [pb |-> playback,
     task |-> broadcast_to_user(
                  NewTask("update", u, d,
                      [type |-> "playback_state_update",
                       state |-> WithUpdatedAt(state, ServerTimestamp)],
                      sender, 0, rooms),
                  rooms)]

\* handle_playback_update, line 60, when ref.set raises: the call sits in
\* no try block, so the store's exception leaves handle_playback_update
\* before the broadcast; the store keeps the value it had.
AcceptUpdateStoreFails(u, d, state, sender) ==
    [pb |-> playback,
     task |-> [NewTask("update", u, d,
                   [type |-> "playback_state_update",
                    state |-> WithUpdatedAt(state, ServerTimestamp)],
                   sender, 0, rooms)
               EXCEPT !.phase = "done", !.result = "raised"]]

\* SyncService.handle_playback_update while the store is unreachable: a
\* rejected update does not touch the store, an accepted one fails in it.
handle_playback_update_store_down(u, d, state, sender) ==
    IF ~validate_device_control(u, d)
    THEN RejectUpdate(u, d, sender)
    ELSE AcceptUpdateStoreFails(u, d, state, sender)

\* Mutant: an update of the active device is accepted only while the
\* device's heartbeat is fresh.
handle_playback_update_live_only(u, d, state, sender) ==
    IF ~(validate_device_control(u, d) /\ isLive(u, d))
    THEN RejectUpdate(u, d, sender)
    ELSE AcceptUpdate(u, d, state, sender)

\* Mutant: while no device is active, the first device to write is let in.
handle_playback_update_open_when_unset(u, d, state, sender) ==
    IF ~(validate_device_control(u, d) \/ get_active_device(u) = None)
    THEN RejectUpdate(u, d, sender)
    ELSE AcceptUpdate(u, d, state, sender)

\* Mutant: the device check is missing, every update is accepted.
handle_playback_update_unchecked(u, d, state, sender) ==
    AcceptUpdate(u, d, state, sender)

\* SyncService.handle_playback_update up to its first await or its return:
\* the coroutine's state and the store's playback map after it.
handle_playback_update(u, d, state, sender) ==
    IF ~validate_device_control(u, d)
    THEN RejectUpdate(u, d, sender)
    ELSE AcceptUpdate(u, d, state, sender)

\* SyncService.broadcast_device_switch up to its first await or its return.
broadcast_device_switch(u, d) ==
    broadcast_to_user(
        NewTask("switch", u, d,
            [type |-> "device_switched", active_device_id |-> d],
            None, 0, rooms),
        rooms)

----------------------------------------------------------------------------
(* Initial state: empty store, no connection, no request in flight *)

Init ==
    /\ now = 0
    /\ devices = [u \in Users |-> << >>]
    /\ activeDevice = [u \in Users |-> None]
    /\ playback = [u \in Users |-> NoState]
    /\ rooms = << >>
    /\ wsPc = [c \in Sockets |-> "new"]
    /\ wsUser = [c \in Sockets |-> None]
    /\ tasks = [id \in TaskIds |-> NoTask]

----------------------------------------------------------------------------
(* HTTP handlers of main.py *)

\* Mutant: as the clock advances, devices whose heartbeat has expired are
\* evicted from the registry.
Tick_evicts_stale ==
    /\ now < MaxTime
    /\ now' = now + 1
    /\ devices' = [u \in Users |->
                      [d \in { e \in DOMAIN devices[u] :
                                 now' - devices[u][e].last_heartbeat_at
                                     < HeartbeatTimeout } |-> devices[u][d]]]
    /\ UNCHANGED <<activeDevice, playback, rooms, wsPc, wsUser, tasks>>

\* The server clock advances.
Tick ==
    /\ now < MaxTime
    /\ now' = now + 1
    /\ UNCHANGED <<devices, activeDevice, playback, rooms, wsPc, wsUser, tasks>>

\* Mutant: the first device a user registers becomes the active one and
\* the election is announced to the user's connections.
register_device_elects_first(u, d, name) ==
    /\ devices' = dm_register_device(devices, u, d, name, now)
    /\ activeDevice' = IF activeDevice[u] = None
                       THEN [activeDevice EXCEPT ![u] = d]
                       ELSE activeDevice
    /\ tasks' = IF activeDevice[u] = None /\ tasks["h1"] = NoTask
                THEN [tasks EXCEPT !["h1"] = broadcast_device_switch(u, d)]
                ELSE tasks
    /\ UNCHANGED <<now, playback, rooms, wsPc, wsUser>>

\* POST /devices/register
register_device(u, d, name) ==
    /\ devices' = dm_register_device(devices, u, d, name, now)
    /\ UNCHANGED <<now, activeDevice, playback, rooms, wsPc, wsUser, tasks>>

\* Mutant: the handler announces the switch without committing it to the
\* registry.
set_active_device_uncommitted(h, u, d) ==
    /\ tasks[h] = NoTask
    /\ tasks' = [tasks EXCEPT ![h] =
                    IF dm_set_active_ok(devices, u, d)
                    THEN broadcast_device_switch(u, d)
                    ELSE Return(NewTask("notfound", u, d, NoMsg, None, 0,
                                        rooms), rooms)]
    /\ UNCHANGED <<now, devices, activeDevice, playback, rooms, wsPc, wsUser>>

\* Mutant: the handler broadcasts device_switched whatever set_active_device
\* returned.
set_active_device_always_broadcasts(h, u, d) ==
    /\ tasks[h] = NoTask
    /\ activeDevice' = dm_set_active_device(activeDevice, devices, u, d)
    /\ tasks' = [tasks EXCEPT ![h] = broadcast_device_switch(u, d)]
    /\ UNCHANGED <<now, devices, playback, rooms, wsPc, wsUser>>

\* POST /devices/set-active: on success the handler awaits the
\* device_switched broadcast before it answers; otherwise it answers 404.
set_active_device(h, u, d) ==
    /\ tasks[h] = NoTask
    /\ activeDevice' = dm_set_active_device(activeDevice, devices, u, d)
    /\ tasks' = [tasks EXCEPT ![h] =
                    IF dm_set_active_ok(devices, u, d)
                    THEN broadcast_device_switch(u, d)
                    ELSE Return(NewTask("notfound", u, d, NoMsg, None, 0,
                                        rooms), rooms)]
    /\ UNCHANGED <<now, devices, playback, rooms, wsPc, wsUser>>

\* Mutant: with no active device set, the list names the first registered
\* device as the active one.
list_devices_default_active(u) ==
    [devices |-> get_user_devices(u),
     active_device_id |->
         IF get_active_device(u) = None /\ get_user_devices(u) # << >>
         THEN get_user_devices(u)[1].device_id
         ELSE get_active_device(u)]

\* GET /devices/list: the answer of the handler.
list_devices(u) ==
    [devices |-> get_user_devices(u),
     active_device_id |-> get_active_device(u)]

\* GET /devices/list is served: the registry is read, nothing changes.
list_devices_request(u) ==
    /\ list_devices(u).active_device_id \in Devices \cup {None}
    /\ UNCHANGED vars

\* POST /devices/heartbeat: the status of the answer.
device_heartbeat_status(u, d) ==
    IF dm_heartbeat_ok(devices, u, d) THEN "200" ELSE "404"

\* Mutant: the heartbeat of an unknown device registers it.
device_heartbeat_registers(u, d) ==
    /\ devices' = IF dm_heartbeat_ok(devices, u, d)
                  THEN update_device_heartbeat(devices, u, d, now)
                  ELSE dm_register_device(devices, u, d, "n1", now)
    /\ UNCHANGED <<now, activeDevice, playback, rooms, wsPc, wsUser, tasks>>

\* POST /devices/heartbeat
device_heartbeat(u, d) ==
    /\ devices' = update_device_heartbeat(devices, u, d, now)
    /\ UNCHANGED <<now, activeDevice, playback, rooms, wsPc, wsUser, tasks>>

\* The framework sends the finished handler's answer; the request is over.
respond(h) ==
    /\ tasks[h].kind # "none"
    /\ tasks[h].phase = "done"
    /\ tasks' = [tasks EXCEPT ![h] = NoTask]
    /\ UNCHANGED <<now, devices, activeDevice, playback, rooms, wsPc, wsUser>>

----------------------------------------------------------------------------
(* A caller of SyncService.handle_playback_update *)

call_handle_playback_update(h, u, d, state, sender) ==
    /\ tasks[h] = NoTask
    /\ LET r == handle_playback_update(u, d, state, sender)
       IN  /\ playback' = r.pb
           /\ tasks' = [tasks EXCEPT ![h] = r.task]
    /\ UNCHANGED <<now, devices, activeDevice, rooms, wsPc, wsUser>>

\* A coroutine's awaited send_json comes back; websocket_endpoint goes back
\* to receive_json when its relay is over.
send_return(id) ==
    /\ tasks[id].kind # "none"
    /\ tasks[id].phase = "send"
    /\ LET t == AfterSend(tasks[id], rooms)
       IN  IF id \in Sockets /\ t.phase = "done"
           THEN /\ tasks' = [tasks EXCEPT ![id] = NoTask]
                /\ wsPc' = [wsPc EXCEPT ![id] = "receiving"]
           ELSE /\ tasks' = [tasks EXCEPT ![id] = t]
                /\ wsPc' = wsPc
    /\ UNCHANGED <<now, devices, activeDevice, playback, rooms, wsUser>>

\* A coroutine's awaited send_json raises (the peer is gone, the frame
\* cannot be written).
send_failed(id) ==
    /\ tasks[id].kind # "none"
    /\ tasks[id].phase = "send"
    /\ LET t == AfterSendFailure(tasks[id], rooms)
       IN  IF id \in Sockets /\ t.phase = "done"
           THEN /\ tasks' = [tasks EXCEPT ![id] = NoTask]
                /\ wsPc' = [wsPc EXCEPT ![id] = "receiving"]
           ELSE /\ tasks' = [tasks EXCEPT ![id] = t]
                /\ wsPc' = wsPc
    /\ UNCHANGED <<now, devices, activeDevice, playback, rooms, wsUser>>

----------------------------------------------------------------------------
(* websocket_endpoint of main.py *)

\* Mutant: the socket is appended to the room before accept() is awaited.
ws_open_joins_before_accept(c, u) ==
    /\ wsPc[c] = "new"
    /\ rooms' = connect(rooms, c, u)
    /\ wsPc' = [wsPc EXCEPT ![c] = "accepting"]
    /\ wsUser' = [wsUser EXCEPT ![c] = u]
    /\ UNCHANGED <<now, devices, activeDevice, playback, tasks>>

\* A client opens /ws/{user_id}: the endpoint awaits websocket.accept().
ws_open(c, u) ==
    /\ wsPc[c] = "new"
    /\ wsPc' = [wsPc EXCEPT ![c] = "accepting"]
    /\ wsUser' = [wsUser EXCEPT ![c] = u]
    /\ UNCHANGED <<now, devices, activeDevice, playback, rooms, tasks>>

\* accept() returned: SyncService.connect appends the socket to the room.
ws_accepted(c) ==
    /\ wsPc[c] = "accepting"
    /\ rooms' = connect(rooms, c, wsUser[c])
    /\ wsPc' = [wsPc EXCEPT ![c] = "receiving"]
    /\ UNCHANGED <<now, devices, activeDevice, playback, wsUser, tasks>>

\* accept() raised: the exception leaves the endpoint, nothing was added.
ws_accept_failed(c) ==
    /\ wsPc[c] = "accepting"
    /\ wsPc' = [wsPc EXCEPT ![c] = "closed"]
    /\ UNCHANGED <<now, devices, activeDevice, playback, rooms, wsUser, tasks>>

\* receive_json() returned data: the endpoint relays it with
\* broadcast_to_user(user_id, data, sender=websocket).
ws_receive(c, data) ==
    /\ wsPc[c] = "receiving"
    /\ LET t == broadcast_to_user(
                    NewTask("relay", wsUser[c], None, data, c, 0, rooms),
                    rooms)
       IN  IF t.phase = "done"
           THEN UNCHANGED <<tasks, wsPc>>
           ELSE /\ tasks' = [tasks EXCEPT ![c] = t]
                /\ wsPc' = [wsPc EXCEPT ![c] = "relaying"]
    /\ UNCHANGED <<now, devices, activeDevice, playback, rooms, wsUser>>

\* Mutant: the user's active device is cleared when the last connection of
\* the user goes.
ws_closed_clears_active(c) ==
    /\ wsPc[c] = "receiving"
    /\ rooms' = disconnect(rooms, c, wsUser[c])
    /\ tasks' = Detach(tasks, rooms', wsUser[c])
    /\ wsPc' = [wsPc EXCEPT ![c] = "closed"]
    /\ activeDevice' = IF wsUser[c] \in DOMAIN rooms'
                       THEN activeDevice
                       ELSE [activeDevice EXCEPT ![wsUser[c]] = None]
    /\ UNCHANGED <<now, devices, playback, wsUser>>

\* receive_json() raised WebSocketDisconnect, or any other exception: both
\* except-branches call SyncService.disconnect and the endpoint ends.
ws_closed(c) ==
    /\ wsPc[c] = "receiving"
    /\ rooms' = disconnect(rooms, c, wsUser[c])
    /\ tasks' = Detach(tasks, rooms', wsUser[c])
    /\ wsPc' = [wsPc EXCEPT ![c] = "closed"]
    /\ UNCHANGED <<now, devices, activeDevice, playback, wsUser>>

----------------------------------------------------------------------------

\* The full protocol for one user: registry, rooms, arbitration, relay.
\* The clock stands still here; NextRegistry runs the registry in time.
Next ==
    \/ \E u \in OneUser, d \in Devices : register_device(u, d, "n1")
    \/ \E h \in OneCaller, u \in OneUser, d \in Devices :
          set_active_device(h, u, d)
    \/ \E u \in OneUser : list_devices_request(u)
    \/ \E u \in OneUser, d \in Devices : device_heartbeat(u, d)
    \/ \E h \in OneCaller : respond(h)
    \/ \E h \in OneCaller, u \in OneUser, d \in Devices, st \in States,
          sender \in Sockets \cup {None} :
            call_handle_playback_update(h, u, d, st, sender)
    \/ \E id \in TaskIds : send_return(id)
    \/ \E id \in TaskIds : send_failed(id)
    \/ \E c \in Sockets, u \in OneUser : ws_open(c, u)
    \/ \E c \in Sockets : ws_accepted(c)
    \/ \E c \in Sockets : ws_accept_failed(c)
    \/ \E c \in Sockets, data \in ClientMsgs : ws_receive(c, data)
    \/ \E c \in Sockets : ws_closed(c)

Spec == Init /\ [][Next]_vars

\* The registry of one user in time: registration with changing metadata,
\* heartbeats and elections, with no socket open.
NextRegistry ==
    \/ Tick
    \/ \E u \in OneUser, d \in Devices, name \in Names :
          register_device(u, d, name)
    \/ \E h \in OneCaller, u \in OneUser, d \in Devices :
          set_active_device(h, u, d)
    \/ \E u \in OneUser : list_devices_request(u)
    \/ \E u \in OneUser, d \in Devices : device_heartbeat(u, d)
    \/ \E h \in OneCaller : respond(h)

SpecRegistry == Init /\ [][NextRegistry]_vars

\* The registry in time with playback updates arbitrated against it:
\* heartbeats age while devices go on claiming control.
NextLiveness ==
    \/ NextRegistry
    \/ \E h \in OneCaller, u \in OneUser, d \in Devices, st \in States :
          call_handle_playback_update(h, u, d, st, None)

SpecLiveness == Init /\ [][NextLiveness]_vars

\* A caller of handle_playback_update while the store is unreachable.
call_handle_playback_update_store_down(h, u, d, state, sender) ==
    /\ tasks[h] = NoTask
    /\ LET r == handle_playback_update_store_down(u, d, state, sender)
       IN  /\ playback' = r.pb
           /\ tasks' = [tasks EXCEPT ![h] = r.task]
    /\ UNCHANGED <<now, devices, activeDevice, rooms, wsPc, wsUser>>

\* Mutant: the rooms outlive the process.
restart_keeps_rooms ==
    /\ wsPc' = [c \in Sockets |-> "new"]
    /\ wsUser' = [c \in Sockets |-> None]
    /\ tasks' = [id \in TaskIds |-> NoTask]
    /\ UNCHANGED <<now, devices, activeDevice, playback, rooms>>

\* The server process is restarted: the module-level SyncService() is built
\* anew with rooms = {}, every WebSocket object and every coroutine of the
\* old process is gone (a request in flight gets no answer, its slot keeps
\* that until the client gives up). What the store holds stays.
restart ==
    /\ rooms' = << >>
    /\ wsPc' = [c \in Sockets |-> "new"]
    /\ wsUser' = [c \in Sockets |-> None]
    /\ tasks' = [id \in TaskIds |->
                    IF id \in Callers /\ tasks[id].kind # "none"
                    THEN [tasks[id] EXCEPT !.phase = "done", !.cur = None,
                                           !.result = "aborted"]
                    ELSE NoTask]
    /\ UNCHANGED <<now, devices, activeDevice, playback>>

\* The protocol of one user with its faults: the store may be unreachable
\* for a call, the process may be restarted.
NextFaults ==
    \/ Next
    \/ \E h \in OneCaller, u \in OneUser, d \in Devices, st \in States,
          sender \in Sockets \cup {None} :
            call_handle_playback_update_store_down(h, u, d, st, sender)
    \/ restart

SpecFaults == Init /\ [][NextFaults]_vars

\* The socket of the specifications that follow one connection only.
OneSocket == {"s1"}

\* The life of one user's registry in time, with one connection coming and
\* going: registrations, heartbeats that age, elections, arbitrated updates
\* and their broadcasts.
NextLifetime ==
    \/ NextLiveness
    \/ \E c \in OneSocket, u \in OneUser : ws_open(c, u)
    \/ \E c \in OneSocket : ws_accepted(c)
    \/ \E c \in OneSocket : ws_closed(c)
    \/ \E h \in OneCaller : send_return(h)

SpecLifetime == Init /\ [][NextLifetime]_vars

\* A caller of SyncService.disconnect other than the endpoint's own except
\* branches: any socket, any user id, at any time (a socket that never
\* joined, that joined another user's room, or that is taken out before its
\* endpoint ends and so is disconnected again later).
sync_disconnect(c, u) ==
    /\ rooms' = disconnect(rooms, c, u)
    /\ tasks' = Detach(tasks, rooms', u)
    /\ UNCHANGED <<now, devices, activeDevice, playback, wsPc, wsUser>>

\* The rooms of two users: connections come and go and are disconnected in
\* any order while device_switched broadcasts are sending.
NextRooms ==
    \/ \E c \in Sockets, u \in Users : ws_open(c, u)
    \/ \E c \in Sockets : ws_accepted(c)
    \/ \E c \in Sockets : ws_accept_failed(c)
    \/ \E c \in Sockets : ws_closed(c)
    \/ \E c \in Sockets, u \in Users : sync_disconnect(c, u)
    \/ \E u \in Users, d \in Devices : register_device(u, d, "n1")
    \/ \E h \in OneCaller, u \in Users, d \in Devices :
          set_active_device(h, u, d)
    \/ \E h \in OneCaller : send_return(h)
    \/ \E h \in OneCaller : respond(h)

SpecRooms == Init /\ [][NextRooms]_vars

\* handle_playback_update called for a message that arrived on a connection
\* of the user (or with no sender).
call_from_connection(h, u, d, state, sender) ==
    /\ sender # None => (wsUser[sender] = u /\ wsPc[sender] = "receiving")
    /\ call_handle_playback_update(h, u, d, state, sender)

\* Two users side by side: each with devices, elections, updates, relays
\* and connections of their own.
NextTwoUsers ==
    \/ \E u \in Users, d \in Devices : register_device(u, d, "n1")
    \/ \E h \in OneCaller, u \in Users, d \in Devices :
          set_active_device(h, u, d)
    \/ \E h \in OneCaller : respond(h)
    \/ \E h \in OneCaller, u \in Users, d \in Devices,
          sender \in Sockets \cup {None} :
            call_from_connection(h, u, d, FullState, sender)
    \/ \E id \in TaskIds : send_return(id)
    \/ \E c \in Sockets, u \in Users : ws_open(c, u)
    \/ \E c \in Sockets : ws_accepted(c)
    \/ \E c \in Sockets : ws_receive(c, [type |-> "ping"])
    \/ \E c \in Sockets : ws_closed(c)

SpecTwoUsers == Init /\ [][NextTwoUsers]_vars

\* Two requests of one user at a time: elections and accepted or rejected
\* updates interleave at their awaits while connections come and go.
NextConcurrent ==
    \/ \E u \in OneUser, d \in Devices : register_device(u, d, "n1")
    \/ \E h \in Callers, u \in OneUser, d \in Devices :
          set_active_device(h, u, d)
    \/ \E h \in Callers : respond(h)
    \/ \E h \in Callers, u \in OneUser, d \in Devices, st \in States,
          sender \in Sockets \cup {None} :
            call_handle_playback_update(h, u, d, st, sender)
    \/ \E id \in Callers : send_return(id)
    \/ \E c \in Sockets, u \in OneUser : ws_open(c, u)
    \/ \E c \in Sockets : ws_accepted(c)
    \/ \E c \in Sockets : ws_closed(c)

SpecConcurrent == Init /\ [][NextConcurrent]_vars

\* The connection whose peer has stopped reading: a send_json awaited on it
\* may never come back.
SlowSocket == "s1"

\* The send_json coroutine id awaits on connection c comes back.
send_return_on(id, c) ==
    /\ send_return(id)
    /\ tasks[id].cur = c

\* Broadcasts to rooms that only grow, one request at a time.
NextStall ==
    \/ \E u \in OneUser, d \in Devices : register_device(u, d, "n1")
    \/ \E h \in OneCaller, u \in OneUser, d \in Devices :
          set_active_device(h, u, d)
    \/ \E h \in OneCaller : respond(h)
    \/ \E h \in OneCaller, u \in OneUser, d \in Devices, st \in States,
          sender \in Sockets \cup {None} :
            call_handle_playback_update(h, u, d, st, sender)
    \/ \E h \in OneCaller, c \in Sockets : send_return_on(h, c)
    \/ \E c \in Sockets, u \in OneUser : ws_open(c, u)
    \/ \E c \in Sockets : ws_accepted(c)

\* The event loop resumes a coroutine whose send_json has completed, and a
\* send_json on a connection whose peer reads does complete; nothing makes
\* a send_json on the slow connection complete.
SpecStall ==
    /\ Init
    /\ [][NextStall]_vars
    /\ \A h \in OneCaller, c \in Sockets \ {SlowSocket} :
           WF_vars(send_return_on(h, c))

----------------------------------------------------------------------------
(* Claims *)

\* How often connection c occurs in a send log.
Sends(log, c) == Cardinality({ k \in 1..Len(log) : log[k] = c })

\* C1: a handle_playback_update call from the active device, once it has
\* returned, wrote the store exactly once, returned True, called send_json
\* exactly once on every connection other than the sender that was in the
\* user's room for the whole call, and never on the sender.
C1_AcceptedUpdateReachesEveryOther ==
    \A h \in Callers :
        (tasks[h].kind = "update" /\ tasks[h].phase = "done") =>
            /\ tasks[h].writes = 1
            /\ tasks[h].result = "True"
            /\ Sends(tasks[h].log, tasks[h].sender) = 0
            /\ \A c \in tasks[h].live \ {tasks[h].sender} :
                   Sends(tasks[h].log, c) = 1

\* The send_json calls a rejected call may make: one, on its sender.
RejectLog(sender) == IF sender = None THEN <<>> ELSE <<sender>>

\* C2 (the call): handle_playback_update for a device that is not the
\* active one writes nothing to the store, starts no broadcast in any other
\* coroutine, builds a playback_controlled_elsewhere message that carries
\* the active device id of that moment, and calls send_json on the sender
\* alone.
C2_RejectStep(h, u, d, st, sender) ==
    (call_handle_playback_update(h, u, d, st, sender)
        /\ ~validate_device_control(u, d)) =>
            /\ playback' = playback
            /\ \A id \in TaskIds \ {h} : tasks'[id] = tasks[id]
            /\ tasks'[h].kind = "reject"
            /\ tasks'[h].msg.type = "playback_controlled_elsewhere"
            /\ tasks'[h].msg.active_device_id = activeDevice[u]
            /\ tasks'[h].log = RejectLog(sender)

\* C2 (the return): a rejected call returns False, having written nothing
\* and having called send_json once, on its sender, and on nobody else.
C2_RejectReturned ==
    \A h \in Callers :
        (tasks[h].kind = "reject" /\ tasks[h].phase = "done") =>
            /\ tasks[h].result = "False"
            /\ tasks[h].writes = 0
            /\ tasks[h].log = RejectLog(tasks[h].sender)

\* C2: an update from a device that is not the active one is rejected:
\* no store write, no broadcast, one playback_controlled_elsewhere carrying
\* the current active device id sent to the requesting connection only,
\* and the call returns False.
C2_RejectedUpdate ==
    /\ []C2_RejectReturned
    /\ [][\A h \in Callers, u \in Users, d \in Devices, st \in States,
             sender \in Sockets \cup {None} :
               C2_RejectStep(h, u, d, st, sender)]_vars

\* C2 witness: a rejected call has returned after its one send to a sender
\* that shares the room with another connection, while another device is
\* active.
C2_Witness ==
    \E h \in Callers :
        /\ tasks[h].kind = "reject" /\ tasks[h].phase = "done"
        /\ tasks[h].sender # None
        /\ tasks[h].msg.active_device_id \in Devices
        /\ tasks[h].user \in DOMAIN rooms
        /\ Len(rooms[tasks[h].user]) = 2
        /\ tasks[h].sender \in Range(rooms[tasks[h].user])

\* C3 (the step): a set-active request for a registered device d makes d
\* the active device; from then on no other device passes
\* validate_device_control and an update claiming another device is
\* rejected.
C3_SwitchStep(h, u, d) ==
    (set_active_device(h, u, d) /\ d \in DOMAIN devices[u]) =>
        /\ get_active_device(u)' = d
        /\ \A d1 \in Devices \ {d} :
               /\ ~validate_device_control(u, d1)'
               /\ handle_playback_update(u, d1, FullState, None)'.task.kind
                      = "reject"

\* C3: setting a registered device active replaces the previous active
\* device: it alone passes validate_device_control afterwards.
C3_OneActiveDevice ==
    [][\A h \in Callers, u \in Users, d \in Devices :
          C3_SwitchStep(h, u, d)]_vars

\* C3 witness: with d1 and d2 registered and playback already written by an
\* earlier active device, a switch to d2 has been carried out and announced.
C3_Witness ==
    \E h \in Callers :
        /\ tasks[h].kind = "switch" /\ tasks[h].device = "d2"
        /\ tasks[h].log # <<>>
        /\ DOMAIN devices[tasks[h].user] = {"d1", "d2"}
        /\ activeDevice[tasks[h].user] = "d2"
        /\ playback[tasks[h].user] # NoState

\* C4 (the step): a set-active request for a device that is not registered
\* leaves the active pointer as it was, starts no broadcast and is answered
\* 404.
C4_UnknownStep(h, u, d) ==
    (set_active_device(h, u, d) /\ d \notin DOMAIN devices[u]) =>
        /\ get_active_device(u)' = get_active_device(u)
        /\ tasks'[h].phase = "done"
        /\ tasks'[h].result = "404"
        /\ tasks'[h].log = <<>>
        /\ tasks'[h].msg = NoMsg
        /\ \A id \in TaskIds \ {h} : tasks'[id] = tasks[id]

\* C4: set-active for an unregistered device fails, changes no active
\* device and broadcasts no device_switched.
C4_UnknownDeviceNotActivated ==
    [][\A h \in Callers, u \in Users, d \in Devices :
          C4_UnknownStep(h, u, d)]_vars

\* C4 witness: a set-active request was answered 404 while the user has an
\* active device and two connections a broadcast would have reached.
C4_Witness ==
    \E h \in Callers :
        /\ tasks[h].kind = "notfound" /\ tasks[h].result = "404"
        /\ activeDevice[tasks[h].user] # None
        /\ tasks[h].device \notin DOMAIN devices[tasks[h].user]
        /\ Cardinality(RoomSet(rooms, tasks[h].user)) = 2

\* C5: the active device of every user is unset or one of the user's
\* registered devices.
C5_ActiveIsRegistered ==
    \A u \in Users :
        activeDevice[u] = None \/ activeDevice[u] \in DOMAIN devices[u]

\* C5 witness: an active device with both devices registered, a connection
\* in the room, a playback update stored and another update in flight.
C5_Witness ==
    \E u \in Users, h \in Callers :
        /\ activeDevice[u] # None
        /\ DOMAIN devices[u] = Devices
        /\ u \in DOMAIN rooms
        /\ playback[u] # NoState
        /\ tasks[h].kind = "update" /\ tasks[h].phase = "send"
        /\ \E c \in Sockets : wsPc[c] = "closed"

\* How often device d occurs in the answer of GET /devices/list.
Listed(u, d) ==
    Cardinality({ k \in 1..Len(list_devices(u).devices) :
                      list_devices(u).devices[k].device_id = d })

\* C6 (the state): every registered device is listed exactly once, an
\* unregistered one not at all.
C6_ListedOnce ==
    \A u \in Users, d \in Devices :
        Listed(u, d) = IF d \in DOMAIN devices[u] THEN 1 ELSE 0

\* C6 (the step): registering puts the device in the list; registering a
\* known device again takes the new metadata and keeps registered_at.
C6_RegisterStep(u, d, name) ==
    register_device(u, d, name) =>
        /\ Listed(u, d)' = 1
        /\ devices'[u][d].name = name
        /\ d \in DOMAIN devices[u] =>
               devices'[u][d].registered_at = devices[u][d].registered_at

\* C6: register is an idempotent upsert: the device is listed exactly once
\* however often it is registered, and a repeated registration refreshes the
\* metadata and keeps registered_at.
C6_RegisterIdempotent ==
    /\ []C6_ListedOnce
    /\ [][\A u \in Users, d \in Devices, name \in Names :
             C6_RegisterStep(u, d, name)]_vars

\* C6 witness: a device registered at an earlier time carries other
\* metadata than a first registration gives, next to a second device.
C6_Witness ==
    \E u \in Users, d \in Devices :
        /\ DOMAIN devices[u] = Devices
        /\ devices[u][d].registered_at < now
        /\ devices[u][d].name = "n2"
        /\ \E e \in Devices \ {d} : devices[u][e].registered_at = now

\* C7: once a successful set-active request has finished its broadcast,
\* send_json for device_switched was called exactly once on every connection
\* that was in the user's room for the whole request.
C7_SwitchReachesAll ==
    \A h \in Callers :
        (tasks[h].kind = "switch" /\ tasks[h].phase = "done") =>
            /\ tasks[h].msg = [type |-> "device_switched",
                               active_device_id |-> tasks[h].device]
            /\ \A c \in tasks[h].live : Sends(tasks[h].log, c) = 1

\* The send log a coroutine slot held before a step.
LogOf(t) == IF t.kind = "none" THEN <<>> ELSE t.log

\* C8 (the state): a user's entry in rooms is never an empty list, and a
\* connection whose endpoint has ended is in no room.
C8_RoomsClean ==
    /\ \A u \in DOMAIN rooms : rooms[u] # <<>>
    /\ \A c \in Sockets, u \in Users :
           wsPc[c] = "closed" => c \notin RoomSet(rooms, u)

\* C8 (the step): disconnect takes the connection out of its user's room
\* and deletes the entry of a room it was alone in; no broadcast calls
\* send_json on a connection after its disconnect.
C8_DisconnectStep ==
    /\ \A c \in Sockets :
           ws_closed(c) =>
               /\ c \notin RoomSet(rooms', wsUser[c])
               /\ RoomSet(rooms, wsUser[c]) \subseteq {c} =>
                      wsUser[c] \notin DOMAIN rooms'
    /\ \A id \in TaskIds, c \in Sockets :
           (wsPc[c] = "closed" /\ tasks'[id].kind \notin {"none", "reject"}) =>
               Sends(LogOf(tasks'[id]), c) <= Sends(LogOf(tasks[id]), c)

\* C8: a disconnected connection is out of its user's room, no broadcast
\* started afterwards sends to it, and the room of a user whose last
\* connection left has no entry.
C8_DisconnectRemoves ==
    /\ []C8_RoomsClean
    /\ [][C8_DisconnectStep]_vars

\* C8 witness: one connection has disconnected, the other is still in the
\* room and a broadcast is sending to it that never sent to the closed one.
C8_Witness ==
    \E c \in Sockets, h \in Callers :
        /\ wsPc[c] = "closed"
        /\ tasks[h].kind \in {"update", "switch"}
        /\ tasks[h].phase = "send"
        /\ tasks[h].cur # c
        /\ Sends(tasks[h].log, c) = 0
        /\ RoomSet(rooms, wsUser[c]) # {}

\* C9: a playback update received on a connection is relayed to no other
\* connection unless the device it claims is the user's active device at
\* that moment.
C9_RelayIsArbitrated ==
    [][\A c \in Sockets, data \in ClientMsgs :
          (ws_receive(c, data) /\ data.type = "update"
              /\ ~validate_device_control(wsUser[c], data.device)) =>
                  LogOf(tasks'[c]) = <<>>]_vars

\* C10 (first message): d1 and d2 are registered, d1 is active, s1 and s2
\* are connected. An update claiming d1 that arrives on s1 is written to the
\* store and sent as playback_state_update with that state to s2, and not
\* to s1.
C10_FirstUpdate ==
    (/\ DOMAIN devices["u1"] = {"d1", "d2"}
     /\ activeDevice["u1"] = "d1"
     /\ RoomSet(rooms, "u1") = {"s1", "s2"}
     /\ ws_receive("s1", [type |-> "update", device |-> "d1",
                          state |-> FullState])) =>
        \E id \in TaskIds :
            /\ tasks'[id].kind # "none"
            /\ tasks'[id].msg.type = "playback_state_update"
            /\ tasks'[id].log = <<"s2">>

\* C10 (second message): an update claiming d2 that arrives on s2 is
\* answered to s2 with playback_controlled_elsewhere naming d1, nothing is
\* sent to s1 and the stored playback state stays as it was.
C10_SecondUpdate ==
    (/\ DOMAIN devices["u1"] = {"d1", "d2"}
     /\ activeDevice["u1"] = "d1"
     /\ RoomSet(rooms, "u1") = {"s1", "s2"}
     /\ ws_receive("s2", [type |-> "update", device |-> "d2",
                          state |-> FullState])) =>
        /\ playback' = playback
        /\ \E id \in TaskIds :
               /\ tasks'[id].kind # "none"
               /\ tasks'[id].msg = [type |-> "playback_controlled_elsewhere",
                                    active_device_id |-> "d1"]
               /\ tasks'[id].log = <<"s2">>
        /\ \A id \in TaskIds :
               Sends(LogOf(tasks'[id]), "s1") = Sends(LogOf(tasks[id]), "s1")

\* C10: the end-to-end scenario over the live channel: the update of the
\* active device reaches the other socket as playback_state_update, the
\* update of the other device is rejected to its sender alone.
C10_Scenario ==
    [][C10_FirstUpdate /\ C10_SecondUpdate]_vars

\* C12: a broadcast that has ended has called send_json exactly once on
\* every connection, other than the excluded sender, that stayed in the
\* room from its start to its end, whatever connections left the room
\* while it was suspended in a send; and on no connection twice.
C12_BroadcastOverSnapshot ==
    \A id \in TaskIds :
        (tasks[id].kind \in {"update", "switch", "relay"}
            /\ tasks[id].phase = "done") =>
                /\ \A c \in Sockets : Sends(tasks[id].log, c) <= 1
                /\ \A c \in tasks[id].live \ {tasks[id].sender} :
                       c \in Range(tasks[id].log)

\* The connections the for-loop of a suspended broadcast has still to visit.
Remaining(t, rms) ==
    LET l == IterList(t, rms)
    IN  { l[j] : j \in t.i..Len(l) } \ {t.sender}

\* C13 (the step): when a send_json raises, a broadcast with connections
\* left in its list calls send_json on the next of them; with none left, and
\* for a rejection reply, the call returns its normal result (a relay goes
\* back to receive_json).
C13_FailureStep ==
    \A id \in TaskIds :
        send_failed(id) =>
            LET t == tasks[id]
                rest == Remaining(t, rooms)
            IN  IF t.kind # "reject" /\ rest # {}
                THEN /\ tasks'[id].phase = "send"
                     /\ tasks'[id].cur \in rest
                     /\ tasks'[id].log = Append(t.log, tasks'[id].cur)
                     /\ t.cur \in tasks'[id].failed
                ELSE IF id \in Sockets
                     THEN tasks'[id] = NoTask /\ wsPc'[id] = "receiving"
                     ELSE /\ tasks'[id].phase = "done"
                          /\ tasks'[id].result \in {"True", "False", "200"}

\* C13 (the state): no call ends by raising; a call that met send failures
\* ends with the result it has without them.
C13_NeverRaised ==
    \A id \in TaskIds :
        (tasks[id].kind # "none" /\ tasks[id].phase = "done") =>
            /\ tasks[id].result # "raised"
            /\ tasks[id].kind = "update" => tasks[id].result = "True"
            /\ tasks[id].kind = "reject" => tasks[id].result = "False"

\* C13: a send_json that raises is caught where it was called: the
\* broadcast goes on with the remaining connections of its loop, and neither
\* broadcast_to_user nor the rejection reply of handle_playback_update
\* raises to its caller.
C13_SendFailureIsolated ==
    /\ []C13_NeverRaised
    /\ [][C13_FailureStep]_vars

\* C13 witness: an accepted update whose first send_json raised went on to
\* call send_json on the second connection and returned True.
C13_Witness ==
    \E h \in Callers :
        /\ tasks[h].kind = "update" /\ tasks[h].phase = "done"
        /\ tasks[h].result = "True"
        /\ Len(tasks[h].log) = 2
        /\ tasks[h].log[1] \in tasks[h].failed
        /\ tasks[h].log[2] \notin tasks[h].failed

\* Two playback states agree in everything but the server's timestamp.
SamePayload(x, y) ==
    /\ DOMAIN x \cup {"updatedAt"} = DOMAIN y \cup {"updatedAt"}
    /\ \A f \in DOMAIN x \ {"updatedAt"} : x[f] = y[f]

\* C11: two accepted updates a and b of one user are in flight and the
\* store holds b's state, so b's write came after a's; then a calls
\* send_json on a connection only if b has not yet called it on that
\* connection: no connection gets b's playback_state_update before a's.
C11_BroadcastsInWriteOrder ==
    [][\A a, b \in Callers, c \in Sockets :
          (/\ a # b
           /\ tasks[a].kind = "update" /\ tasks[b].kind = "update"
           /\ tasks[a].user = tasks[b].user
           /\ ~SamePayload(tasks[a].msg.state, tasks[b].msg.state)
           /\ SamePayload(playback[tasks[b].user], tasks[b].msg.state)
           /\ tasks'[a].kind = "update"
           /\ Sends(tasks'[a].log, c) > Sends(tasks[a].log, c)) =>
              Sends(tasks[b].log, c) = 0]_vars

\* C14 (the commit): the step in which a set-active request starts its
\* device_switched broadcast, and so every send_json of that broadcast, has
\* the registry's pointer already set to the device the message names.
C14_CommitStep ==
    \A h \in Callers :
        (tasks[h] = NoTask /\ tasks'[h].kind = "switch") =>
            /\ tasks'[h].msg = [type |-> "device_switched",
                                active_device_id |-> tasks'[h].device]
            /\ activeDevice'[tasks'[h].user] = tasks'[h].device
            /\ \A id \in TaskIds \ {h} : tasks'[id] = tasks[id]

\* C14 (the pointer): the pointer moves only in the step of a successful
\* set-active request, to the device of that request; while a
\* device_switched broadcast is sending, the value before its commit does
\* not come back but by a later commit.
C14_PointerStep ==
    \A u \in Users :
        activeDevice'[u] # activeDevice[u] =>
            \E h \in Callers, d \in Devices :
                /\ set_active_device(h, u, d)
                /\ dm_set_active_ok(devices, u, d)
                /\ activeDevice'[u] = d
                /\ tasks'[h].kind = "switch" /\ tasks'[h].device = d

\* C14: device_switched naming D is sent to no connection before the
\* pointer is committed to D, and a read of the pointer after a delivery
\* gives D or the device of a later commit, never the value before.
C14_SwitchAfterCommit ==
    [][C14_CommitStep /\ C14_PointerStep]_vars

\* C14 witness: device_switched naming d is being sent to a connection with
\* the pointer at d, while the request that had elected the device before
\* it, e, has finished its own broadcast.
C14_Witness ==
    \E h, g \in Callers :
        /\ tasks[h].kind = "switch" /\ tasks[h].phase = "send"
        /\ tasks[h].log # <<>>
        /\ activeDevice[tasks[h].user] = tasks[h].device
        /\ tasks[g].kind = "switch" /\ tasks[g].phase = "done"
        /\ tasks[g].log # <<>>
        /\ tasks[g].device # tasks[h].device

\* C15 (the step): opening, accepting, failing to accept and closing a
\* connection leave the registered devices, the active device and the
\* stored playback state of every user as they were; accepting and closing
\* change the room of the connection's user.
C15_ConnectionStep ==
    \A c \in Sockets :
        /\ ((\E u \in Users : ws_open(c, u)) \/ ws_accepted(c)
                \/ ws_accept_failed(c) \/ ws_closed(c)) =>
               /\ devices' = devices
               /\ activeDevice' = activeDevice
               /\ playback' = playback
        /\ ws_accepted(c) =>
               RoomSet(rooms', wsUser[c]) = RoomSet(rooms, wsUser[c]) \cup {c}
        /\ ws_closed(c) =>
               RoomSet(rooms', wsUser[c]) = RoomSet(rooms, wsUser[c]) \ {c}

\* C15: connections coming and going, the last connection of the active
\* device's user included, change the rooms and nothing of the registry.
C15_RegistryOutlivesConnections ==
    [][C15_ConnectionStep]_vars

\* C15 witness: every connection of a user with two registered devices, one
\* of them active, has disconnected; the user has no room any more and the
\* registry still holds the devices and the active one.
C15_Witness ==
    \E u \in Users :
        /\ \A c \in Sockets : wsPc[c] = "closed" /\ wsUser[c] = u
        /\ u \notin DOMAIN rooms
        /\ DOMAIN devices[u] = Devices
        /\ activeDevice[u] \in Devices

\* C16 (the state): validate_device_control holds for the active device
\* and for no other, whatever the heartbeats say.
C16_ValidateIffActive ==
    \A u \in Users, d \in Devices :
        validate_device_control(u, d) <=> (d = get_active_device(u))

\* C16 (the step): handle_playback_update accepts the update of the active
\* device, expired heartbeat or not, with a store write; it rejects the
\* update of any other device, live or not, without one.
C16_ArbitrationStep ==
    \A h \in Callers, u \in Users, d \in Devices, st \in States :
        call_handle_playback_update(h, u, d, st, None) =>
            IF d = get_active_device(u)
            THEN /\ tasks'[h].kind = "update"
                 /\ SamePayload(playback'[u], st)
            ELSE /\ tasks'[h].kind = "reject"
                 /\ playback' = playback

\* C16: control belongs to the active device alone and does not depend on
\* liveness: an active device with an expired heartbeat keeps writing until
\* another device is made active, a live device that is not active is
\* rejected.
C16_ControlIgnoresLiveness ==
    /\ []C16_ValidateIffActive
    /\ [][C16_ArbitrationStep]_vars

\* C16 witness: the update of the active device d was accepted and written
\* at a time when d's heartbeat had expired, with another registered device
\* e live and not active.
C16_Witness ==
    \E h \in Callers, u \in Users, d \in Devices, e \in Devices :
        /\ tasks[h].kind = "update" /\ tasks[h].result = "True"
        /\ tasks[h].user = u /\ tasks[h].device = d
        /\ activeDevice[u] = d
        /\ playback[u] # NoState
        /\ playback[u].updatedAt.ts - devices[u][d].last_heartbeat_at
               >= HeartbeatTimeout
        /\ ~isLive(u, d)
        /\ e # d /\ isLive(u, e)

\* C17 (the step): the heartbeat of a registered device is answered 200 and
\* sets that device's last_heartbeat_at to now, leaving its other fields;
\* the heartbeat of an unknown device is answered 404 and changes nothing.
\* Either way every other device record, the set of registered devices and
\* the active device stay as they were.
C17_HeartbeatStep(u, d) ==
    device_heartbeat(u, d) =>
        /\ IF d \in DOMAIN devices[u]
           THEN /\ device_heartbeat_status(u, d) = "200"
                /\ devices'[u][d] =
                       [devices[u][d] EXCEPT !.last_heartbeat_at = now]
           ELSE /\ device_heartbeat_status(u, d) = "404"
                /\ devices' = devices
        /\ DOMAIN devices'[u] = DOMAIN devices[u]
        /\ \A e \in DOMAIN devices[u] \ {d} : devices'[u][e] = devices[u][e]
        /\ \A v \in Users \ {u} : devices'[v] = devices[v]
        /\ activeDevice' = activeDevice

\* C17: heartbeat touches last_heartbeat_at of its own, registered device
\* and nothing else.
C17_HeartbeatFrame ==
    [][\A u \in Users, d \in Devices : C17_HeartbeatStep(u, d)]_vars

\* C17 witness: device d has a heartbeat later than its registration, the
\* other device e, which is the active one, still has its older heartbeat.
C17_Witness ==
    \E u \in Users, d \in Devices, e \in Devices :
        /\ d # e /\ DOMAIN devices[u] = {d, e}
        /\ devices[u][d].last_heartbeat_at = now
        /\ devices[u][d].registered_at < now
        /\ devices[u][e].last_heartbeat_at < now
        /\ activeDevice[u] = e

\* C18 (the step): POST /devices/register, for a new device, a registered
\* one or the active one, leaves the active device of every user as it was
\* and calls send_json on no connection: no coroutine starts or moves.
C18_RegisterStep(u, d, name) ==
    register_device(u, d, name) =>
        /\ activeDevice' = activeDevice
        /\ get_active_device(u)' = get_active_device(u)
        /\ tasks' = tasks
        /\ rooms' = rooms
        /\ d \in DOMAIN devices'[u]

\* C18: registering a device never elects it and broadcasts nothing.
C18_RegisterKeepsActive ==
    [][\A u \in Users, d \in Devices, name \in Names :
          C18_RegisterStep(u, d, name)]_vars

\* C18 witness: both devices are registered and one is active, with a
\* playback state stored, two connections in the user's room that a
\* broadcast would reach, and no coroutine in flight.
C18_Witness ==
    \E u \in Users :
        /\ Cardinality(RoomSet(rooms, u)) = 2
        /\ DOMAIN devices[u] = Devices
        /\ activeDevice[u] \in Devices
        /\ playback[u] # NoState
        /\ \A id \in TaskIds : tasks[id] = NoTask

\* C19 (the state): a user with no registered device gets an empty device
\* list and no active device from GET /devices/list.
C19_NothingRegistered ==
    \A u \in Users :
        devices[u] = << >> =>
            /\ list_devices(u).devices = << >>
            /\ list_devices(u).active_device_id = None
            /\ get_active_device(u) = None

\* C19 (the step): the active device of a user stops being none only in
\* the step of a set-active request that succeeds; until then GET
\* /devices/list answers no active device, devices registered or not.
C19_FirstElectionStep ==
    \A u \in Users :
        /\ get_active_device(u) = None =>
               list_devices(u).active_device_id = None
        /\ (get_active_device(u) = None /\ get_active_device(u)' # None) =>
               \E h \in Callers, d \in Devices :
                   /\ set_active_device(h, u, d)
                   /\ dm_set_active_ok(devices, u, d)

\* C19: no registration gives an empty list and no active device; devices
\* without a successful set-active give no active device either.
C19_NoDefaultActive ==
    /\ []C19_NothingRegistered
    /\ [][C19_FirstElectionStep]_vars

\* C19 witness: a user has both devices registered, one with a heartbeat
\* after its registration, a set-active request of that user has failed,
\* and GET /devices/list names both devices and no active one.
C19_Witness ==
    \E u \in Users :
        /\ Len(list_devices(u).devices) = 2
        /\ list_devices(u).active_device_id = None
        /\ \E d \in Devices :
               devices[u][d].last_heartbeat_at > devices[u][d].registered_at
        /\ \E h \in Callers :
               tasks[h].kind = "notfound" /\ tasks[h].user = u

\* A broadcast is suspended in its send_json on the slow connection before
\* it has called send_json on connection c of the room.
C20_Waiting(h, c) ==
    /\ tasks[h].kind \in {"update", "switch"}
    /\ tasks[h].phase = "send"
    /\ tasks[h].cur = SlowSocket
    /\ c \in tasks[h].live \ {tasks[h].sender, SlowSocket}
    /\ c \notin Range(tasks[h].log)

\* C20: a broadcast waiting for its send_json on a slow connection still
\* calls send_json, in the end, on every other connection of the room that
\* is not the excluded sender.
C20_NoStall ==
    \A h \in Callers, c \in Sockets :
        C20_Waiting(h, c) ~>
            (tasks[h].kind \in {"update", "switch"}
                /\ c \in Range(tasks[h].log))

\* C21 (the step): a restart leaves no room and no connection, and the
\* device records, the active device and the playback state of every user
\* exactly as the store held them before.
C21_RestartStep ==
    restart =>
        /\ rooms' = << >>
        /\ \A u \in Users : RoomSet(rooms', u) = {}
        /\ \A c \in Sockets : wsPc'[c] = "new"
        /\ devices' = devices
        /\ activeDevice' = activeDevice
        /\ playback' = playback
        /\ \A u \in Users : list_devices(u)' = list_devices(u)

\* C21: rooms are transport state of one process and start empty after a
\* restart; the registry and the playback state are the store's and survive.
C21_RestartKeepsStore ==
    [][C21_RestartStep]_vars

\* C21 witness: the process was restarted while a broadcast was sending:
\* that request got no answer, no room is left, and the store still holds
\* two devices, the active one and a playback state.
C21_Witness ==
    \E h \in Callers, u \in Users :
        /\ tasks[h].kind \in {"update", "switch"}
        /\ tasks[h].result = "aborted"
        /\ tasks[h].log # << >>
        /\ tasks[h].user = u
        /\ rooms = << >>
        /\ DOMAIN devices[u] = Devices
        /\ activeDevice[u] \in Devices
        /\ playback[u] # NoState

\* C22 (the step): an update of the active device that meets a failing
\* store write ends by raising the store's error, which is neither True nor
\* the False of a rejection; send_json is called on no connection and the
\* stored playback state is the one from before.
C22_StoreFailureStep(h, u, d, st, sender) ==
    (/\ tasks'[h] # tasks[h]
     /\ validate_device_control(u, d)
     /\ call_handle_playback_update_store_down(h, u, d, st, sender)) =>
            /\ tasks'[h].phase = "done"
            /\ tasks'[h].result = "raised"
            /\ tasks'[h].result \notin {"True", "False"}
            /\ tasks'[h].log = << >>
            /\ tasks'[h].writes = 0
            /\ playback' = playback
            /\ \A id \in TaskIds \ {h} : tasks'[id] = tasks[id]

\* C22: a store failure during an accepted update reaches the caller as an
\* error of its own, nothing is broadcast and nothing is stored.
C22_StoreFailureSurfaces ==
    [][\A h \in Callers, u \in Users, d \in Devices, st \in States,
          sender \in Sockets \cup {None} :
            C22_StoreFailureStep(h, u, d, st, sender)]_vars

\* C22 witness: the update of the active device failed in the store while
\* two connections were in the user's room, the sender one of them; the
\* store holds the state of an earlier update, which differs from the one
\* proposed.
C22_Witness ==
    \E h \in Callers :
        /\ tasks[h].kind = "update" /\ tasks[h].result = "raised"
        /\ tasks[h].device = activeDevice[tasks[h].user]
        /\ Cardinality(RoomSet(rooms, tasks[h].user)) = 2
        /\ tasks[h].sender \in RoomSet(rooms, tasks[h].user)
        /\ playback[tasks[h].user] # NoState
        /\ ~SamePayload(playback[tasks[h].user], tasks[h].msg.state)

\* The fields a stored playback state holds, the timestamp aside.
StoredFields(pb) == IF pb = NoState THEN {} ELSE DOMAIN pb \ {"updatedAt"}

\* C23: an accepted update stores the fields it provides with a fresh
\* updatedAt, and every field of the stored state that it does not provide
\* is still there with its previous value.
C23_UpdateMerges ==
    [][\A h \in Callers, u \in Users, d \in Devices, st \in States,
          sender \in Sockets \cup {None} :
            (/\ tasks'[h] # tasks[h]
             /\ validate_device_control(u, d)
             /\ call_handle_playback_update(h, u, d, st, sender)) =>
                /\ \A f \in DOMAIN st : playback'[u][f] = st[f]
                /\ "updatedAt" \in DOMAIN playback'[u]
                /\ \A f \in StoredFields(playback[u]) \ DOMAIN st :
                       /\ f \in DOMAIN playback'[u]
                       /\ playback'[u][f] = playback[u][f]]_vars

\* C24 (the step): no step takes a device out of a user's registry: a
\* registered device stays registered, with its registered_at, and stays
\* in the answer of GET /devices/list exactly once.
C24_NoEvictionStep ==
    \A u \in Users, d \in Devices :
        d \in DOMAIN devices[u] =>
            /\ d \in DOMAIN devices'[u]
            /\ devices'[u][d].registered_at = devices[u][d].registered_at
            /\ Listed(u, d)' = 1

\* C24: once registered, a device is listed for ever, whatever heartbeats
\* it misses, whoever disconnects and whichever device becomes active.
C24_DevicesNeverDeleted ==
    [][C24_NoEvictionStep]_vars

\* C24 witness: device d, registered at the start, has missed its
\* heartbeats, the user's connection has come and gone, another device is
\* the active one, and d is still listed.
C24_Witness ==
    \E u \in Users, d \in Devices :
        /\ Listed(u, d) = 1
        /\ devices[u][d].registered_at = 0
        /\ now - devices[u][d].last_heartbeat_at > HeartbeatTimeout
        /\ \E c \in Sockets : wsPc[c] = "closed" /\ wsUser[c] = u
        /\ activeDevice[u] \in Devices \ {d}

\* The time since the last heartbeat of a registered device.
Age(u, d) == now - devices[u][d].last_heartbeat_at

\* C25 (the state): a registered device is live exactly while its age is
\* below the timeout; at an age equal to the timeout it is not live.
C25_StrictlyYounger ==
    \A u \in Users, d \in Devices :
        d \in DOMAIN devices[u] =>
            /\ isLive(u, d) <=> (Age(u, d) < HeartbeatTimeout)
            /\ Age(u, d) = HeartbeatTimeout => ~isLive(u, d)

\* C25 (the step): serving GET /devices/list, where liveness is read,
\* changes no device record and removes no device, stale or not.
C25_ReadStep ==
    \A u \in Users :
        list_devices_request(u) =>
            /\ devices' = devices
            /\ activeDevice' = activeDevice
            /\ \A d \in Devices : isLive(u, d)' = isLive(u, d)

\* C25: isLive is the strict comparison now - last_heartbeat_at < timeout
\* and reading it leaves the registry as it is.
C25_IsLivePure ==
    /\ []C25_StrictlyYounger
    /\ [][C25_ReadStep]_vars

\* C25 witness: a device whose age equals the timeout is not live and is
\* still listed, next to a device that is younger and live.
C25_Witness ==
    \E u \in Users, d \in Devices, e \in Devices :
        /\ DOMAIN devices[u] = {d, e}
        /\ Age(u, d) = HeartbeatTimeout /\ ~isLive(u, d)
        /\ Listed(u, d) = 1
        /\ Age(u, e) < HeartbeatTimeout /\ isLive(u, e)

\* C26 (the step): with no active device set for the user, a
\* handle_playback_update call for any device id is rejected: the store is
\* not written, no other coroutine moves, and the one send_json, to the
\* sender, carries active_device_id none.
C26_UnsetStep(h, u, d, st, sender) ==
    (/\ tasks'[h] # tasks[h]
     /\ get_active_device(u) = None
     /\ call_handle_playback_update(h, u, d, st, sender)) =>
        /\ tasks'[h].kind = "reject"
        /\ tasks'[h].writes = 0
        /\ playback' = playback
        /\ tasks'[h].msg = [type |-> "playback_controlled_elsewhere",
                            active_device_id |-> None]
        /\ tasks'[h].log = RejectLog(sender)
        /\ \A id \in TaskIds \ {h} : tasks'[id] = tasks[id]

\* C26: until a device is made active, every update is rejected, with no
\* store write, no broadcast, and a rejection that names no active device.
C26_NoActiveNoWriter ==
    [][\A h \in Callers, u \in Users, d \in Devices, st \in States,
          sender \in Sockets \cup {None} :
            C26_UnsetStep(h, u, d, st, sender)]_vars

\* C26 witness: the update of a registered device was rejected to its
\* sender with active_device_id none and has returned False; another
\* connection shares the room, the store has never been written.
C26_Witness ==
    \E h \in Callers :
        /\ tasks[h].kind = "reject" /\ tasks[h].result = "False"
        /\ tasks[h].msg.active_device_id = None
        /\ tasks[h].device \in DOMAIN devices[tasks[h].user]
        /\ tasks[h].log = <<tasks[h].sender>>
        /\ RoomSet(rooms, tasks[h].user) = Sockets
        /\ playback[tasks[h].user] = NoState
        /\ activeDevice[tasks[h].user] = None

\* C27 (the step): an active device stays active over every step but a
\* successful set-active request, which makes its own argument the active
\* device; the pointer never goes back to none.
C27_ActiveStep ==
    \A u \in Users :
        get_active_device(u) # None =>
            /\ get_active_device(u)' # None
            /\ get_active_device(u)' # get_active_device(u) =>
                   \E h \in Callers, d \in Devices :
                       /\ set_active_device(h, u, d)
                       /\ dm_set_active_ok(devices, u, d)
                       /\ d # get_active_device(u)
                       /\ get_active_device(u)' = d

\* C27: only the successful election of another device ends a device's
\* active status; registrations, heartbeats, expiry, disconnects, updates
\* and failed elections leave the pointer where it is.
C27_ActiveUntilSuperseded ==
    [][C27_ActiveStep]_vars

\* C27 witness: device d is active although its heartbeat has expired, the
\* user's connection has disconnected, a playback state was written and the
\* election of an unregistered device has just failed.
C27_Witness ==
    \E u \in Users, d \in Devices, h \in Callers :
        /\ activeDevice[u] = d
        /\ ~isLive(u, d)
        /\ \E c \in Sockets : wsPc[c] = "closed" /\ wsUser[c] = u
        /\ playback[u] # NoState
        /\ tasks[h].kind = "notfound" /\ tasks[h].user = u
        /\ tasks[h].device \notin DOMAIN devices[u]

\* C28 (the state): no entry of rooms is an empty list, and the keys of
\* rooms are user ids.
C28_NoEmptyRoom ==
    /\ DOMAIN rooms \subseteq Users
    /\ \A u \in DOMAIN rooms : rooms[u] # << >>

\* What one call disconnect(c, u) does to the rooms: c is out of u's room,
\* the entry of u is there afterwards iff another connection is left, the
\* other users' rooms are untouched, and a call for a connection that is not
\* in the room changes nothing.
C28_Leave(c, u) ==
    /\ c \notin RoomSet(rooms', u)
    /\ u \in DOMAIN rooms' <=> RoomSet(rooms, u) \ {c} # {}
    /\ RoomSet(rooms', u) = RoomSet(rooms, u) \ {c}
    /\ \A v \in Users \ {u} : RoomSet(rooms', v) = RoomSet(rooms, v)
    /\ c \notin RoomSet(rooms, u) => rooms' = rooms

\* C28 (the step): connect puts the user's id among the keys with the
\* connection in its room; every disconnect, the endpoint's own or another,
\* repeated or for a connection that is not in the room, leaves as keys
\* exactly the users that still have a connection.
C28_RoomStep ==
    \A c \in Sockets :
        /\ ws_accepted(c) =>
               /\ wsUser[c] \in DOMAIN rooms'
               /\ RoomSet(rooms', wsUser[c]) = RoomSet(rooms, wsUser[c]) \cup {c}
        /\ ws_closed(c) => C28_Leave(c, wsUser[c])
        /\ \A u \in Users : sync_disconnect(c, u) => C28_Leave(c, u)

\* C28: a user id is a key of rooms iff the user has a joined connection,
\* under every interleaving of connect and disconnect.
C28_RoomsHaveMembers ==
    /\ []C28_NoEmptyRoom
    /\ [][C28_RoomStep]_vars

\* C28 witness: a connection was taken out of its room before its endpoint
\* ended, so that the endpoint's own disconnect will be a second one; it was
\* the last of its user, whose entry is gone, while the other user's room
\* holds the other connection.
C28_Witness ==
    \E c \in Sockets, e \in Sockets :
        /\ wsPc[c] = "receiving" /\ wsUser[c] \notin DOMAIN rooms
        /\ wsPc[e] = "receiving" /\ wsUser[e] # wsUser[c]
        /\ rooms = [u \in {wsUser[e]} |-> <<e>>]

\* C29 (the state): a connection occurs at most once in the list of its
\* user's room and in no other room, and no broadcast has called send_json
\* twice on one connection.
C29_NoDuplicate ==
    /\ \A u \in DOMAIN rooms, c \in Sockets :
           /\ Sends(rooms[u], c) <= 1
           /\ c \in Range(rooms[u]) => wsUser[c] = u
    /\ \A id \in TaskIds, c \in Sockets :
           tasks[id].kind \in {"update", "switch", "relay"} =>
               Sends(tasks[id].log, c) <= 1

\* C29 (the step): connect adds one occurrence of the connection; the one
\* disconnect of an endpoint leaves none.
C29_JoinLeaveStep ==
    \A c \in Sockets :
        /\ ws_accepted(c) => Sends(rooms'[wsUser[c]], c) = 1
        /\ ws_closed(c) => c \notin RoomSet(rooms', wsUser[c])

\* C29: the list of a room behaves as a set: no connection is in it twice,
\* so that a broadcast reaches it at most once and one disconnect removes
\* it.
C29_RoomIsASet ==
    /\ []C29_NoDuplicate
    /\ [][C29_JoinLeaveStep]_vars

\* C29 witness: a broadcast has finished after one send_json on each of two
\* connections; one of them has since disconnected and is gone from the
\* room, which holds the other one once.
C29_Witness ==
    \E h \in Callers, c \in Sockets, e \in Sockets :
        /\ tasks[h].kind \in {"update", "switch"} /\ tasks[h].phase = "done"
        /\ c # e /\ tasks[h].log = <<c, e>>
        /\ wsPc[c] = "closed"
        /\ rooms = [u \in {tasks[h].user} |-> <<e>>]

\* C30 (the state): every connection a coroutine has called send_json on,
\* for a broadcast, a relay, a device_switched or a rejection, joined under
\* the user the coroutine works for.
C30_SendsStayWithUser ==
    \A id \in TaskIds :
        tasks[id].kind # "none" =>
            \A k \in 1..Len(tasks[id].log) :
                wsUser[tasks[id].log[k]] = tasks[id].user

\* What a user owns: room, devices, active device and playback state.
OfUser(v) == <<RoomSet(rooms, v), devices[v], activeDevice[v], playback[v]>>

\* The step is an operation on user u: a request, a call or a message of
\* u, a connection of u opening, joining or leaving, or a send of one of
\* u's coroutines coming back.
OperationOn(u) ==
    \/ \E d \in Devices : register_device(u, d, "n1")
    \/ \E h \in Callers, d \in Devices : set_active_device(h, u, d)
    \/ \E h \in Callers, d \in Devices, sender \in Sockets \cup {None} :
           call_from_connection(h, u, d, FullState, sender)
    \/ \E c \in Sockets :
           /\ wsUser'[c] = u
           /\ ws_open(c, u) \/ ws_accepted(c) \/ ws_closed(c)
                  \/ ws_receive(c, [type |-> "ping"])
    \/ \E id \in TaskIds :
           /\ tasks[id].kind # "none"
           /\ tasks[id].user = u
           /\ send_return(id) \/ (id \in Callers /\ respond(id))

\* C30 (the step): an operation on user u leaves what every other user
\* owns as it was, and calls send_json on connections of u only.
C30_OtherUsersStep ==
    \A u \in Users :
        OperationOn(u) =>
            /\ \A v \in Users \ {u} : OfUser(v)' = OfUser(v)
            /\ \A id \in TaskIds, c \in Sockets :
                   (tasks'[id].kind # "none" /\ wsUser'[c] # u) =>
                       Sends(tasks'[id].log, c) <= Sends(LogOf(tasks[id]), c)

\* C30: fan-out is confined to one user: nothing triggered for u is sent
\* to a connection that joined under another user, and operations on u
\* leave the other user's room, devices, active device and playback state
\* unchanged.
C30_FanOutConfined ==
    /\ []C30_SendsStayWithUser
    /\ [][C30_OtherUsersStep]_vars

\* C30 witness: each user has a connection in a room of its own and an
\* active device; an accepted update of one user has been sent to that
\* user's connection alone and has returned, the other user's playback
\* state is unwritten.
C30_Witness ==
    \E h \in Callers, c \in Sockets, e \in Sockets, v \in Users :
        /\ tasks[h].kind = "update" /\ tasks[h].phase = "done"
        /\ tasks[h].log = <<c>>
        /\ v # tasks[h].user
        /\ rooms = (tasks[h].user :> <<c>>) @@ (v :> <<e>>)
        /\ activeDevice[v] \in Devices
        /\ playback[v] = NoState

\* C31: two set-active requests a and b of one user, for different devices,
\* are in flight and the registry's pointer is at b's device, so b's commit
\* superseded a's; then a calls send_json on a connection that has been in
\* the room since both broadcasts began only if b has not called it on that
\* connection yet: the last device_switched event of no such connection
\* names the superseded device.
C31_LastSwitchNamesActive ==
    [][\A a, b \in Callers, c \in Sockets :
          (/\ a # b
           /\ tasks[a].kind = "switch" /\ tasks[b].kind = "switch"
           /\ tasks[a].user = tasks[b].user
           /\ tasks[a].device # tasks[b].device
           /\ get_active_device(tasks[b].user) = tasks[b].device
           /\ tasks'[a].kind = "switch"
           /\ c \in tasks'[a].live \cap tasks[b].live
           /\ Sends(tasks'[a].log, c) > Sends(tasks[a].log, c)) =>
              Sends(tasks[b].log, c) = 0]_vars

\* C32: an accepted update a of device D1 is broadcasting and a set-active
\* request b has since moved the pointer to another device D2; then a calls
\* send_json on a connection only if b has not called it on that connection
\* yet: no connection that was in the room when both began, and has stayed,
\* is sent D1's playback_state_update after the device_switched event
\* naming D2.
C32_NoUpdateAfterSwitch ==
    [][\A a, b \in Callers, c \in Sockets :
          (/\ a # b
           /\ tasks[a].kind = "update" /\ tasks[b].kind = "switch"
           /\ tasks[a].user = tasks[b].user
           /\ tasks[a].device # tasks[b].device
           /\ get_active_device(tasks[b].user) = tasks[b].device
           /\ tasks'[a].kind = "update"
           /\ c \in tasks'[a].live \cap tasks[b].live
           /\ Sends(tasks'[a].log, c) > Sends(tasks[a].log, c)) =>
              Sends(tasks[b].log, c) = 0]_vars

\* C33: whenever a broadcast (an accepted update, a device switch or a
\* relay) calls send_json on a connection, that connection was in the
\* user's room when the broadcast started: a connection that joined the room
\* while the broadcast was suspended in a send is not sent its message.
C33_NoSendToLateJoiner ==
    [][\A id \in TaskIds, c \in Sockets :
          (/\ tasks'[id] # tasks[id]
           /\ tasks'[id].kind \in {"update", "switch", "relay"}
           /\ Sends(LogOf(tasks'[id]), c) > Sends(LogOf(tasks[id]), c)) =>
              c \in tasks'[id].live]_vars

\* C34 (the state): every member of a room is a connection of that user
\* whose handshake has completed and whose endpoint is in its message loop
\* (waiting in receive_json or relaying what it received).
C34_MembersAreOpen ==
    \A u \in Users, c \in Sockets :
        c \in RoomSet(rooms, u) =>
            /\ wsUser[c] = u
            /\ wsPc[c] \in {"receiving", "relaying"}

\* C34 (the step): a connection enters a room only in the step in which its
\* accept() returns, and then its own user's room; a failed accept ends the
\* endpoint and leaves every room as it was; the step in which the message
\* loop ends by an exception leaves the connection in no room.
C34_MembershipStep ==
    /\ \A u \in Users, c \in Sockets :
           (rooms' # rooms
               /\ c \in RoomSet(rooms', u) /\ c \notin RoomSet(rooms, u)) =>
                   /\ wsPc[c] = "accepting" /\ wsPc'[c] = "receiving"
                   /\ wsUser[c] = u
    /\ \A c \in Sockets :
           (wsPc'[c] # wsPc[c] /\ wsPc[c] = "accepting") =>
               \/ wsPc'[c] = "receiving" /\ c \in RoomSet(rooms', wsUser[c])
               \/ wsPc'[c] = "closed" /\ rooms' = rooms
    /\ \A c \in Sockets :
           (wsPc'[c] # wsPc[c] /\ wsPc'[c] = "closed") =>
               \A u \in Users : c \notin RoomSet(rooms', u)

\* C34: a connection is a member of its user's room from the step its
\* handshake completes to the step its message loop ends, and at no other
\* time: a failed accept adds nothing and no connection whose endpoint has
\* ended is left in a room.
C34_MemberWhileOpen ==
    /\ []C34_MembersAreOpen
    /\ [][C34_MembershipStep]_vars

\* C34 witness: a connection joined the room, was sent a device_switched
\* event there and has disconnected since; the endpoint of the other
\* connection, which was not sent the event, has ended too (its accept
\* failed or it had left before); no room is left.
C34_Witness ==
    \E c, e \in Sockets, h \in Callers :
        /\ c # e
        /\ wsPc[c] = "closed" /\ wsPc[e] = "closed"
        /\ tasks[h].kind = "switch"
        /\ Sends(tasks[h].log, c) = 1
        /\ Sends(tasks[h].log, e) = 0
        /\ rooms = << >>

====
